---- MODULE Spec2Model ----
(***************************************************************************)
(* A model of the template-object tree (template_objects.py) and of the    *)
(* Java language models and generators (java_generator.py).                *)
(*                                                                         *)
(* Text is modelled as a sequence of one-character strings, so that the    *)
(* conversions the code applies to names (lower-casing, camel-casing,      *)
(* '%s' formatting, '/' replacement) are computed character by character.  *)
(* Dictionary keys and import names are never taken apart by the code and  *)
(* are kept as plain strings.                                              *)
(***************************************************************************)
EXTENDS Integers, Sequences, FiniteSets, TLC

VARIABLES
    last,       \* the last call made on a language model, with its outcome
    the_api,    \* the Api that owns the named elements
    schemas,    \* the schemas defined so far, each nested in the one before
    constructed,\* the CodeObjects constructed so far
    _parent,    \* CodeObject._parent of every CodeObject
    _children,  \* CodeObject._children of every CodeObject
    _module,    \* CodeObject._module of every CodeObject
    _language_model, \* CodeObject._language_model of every CodeObject
    _path,      \* Module._path of every Module
    _owner_domain,   \* Module._owner_domain of every Module
    _name,      \* Module._name of every Module
    name_read,  \* history: the Modules whose name was read
    path_given, \* history: the path of the last SetPath call on every Module
    element,    \* the Property or Parameter being annotated
    frame,      \* the annotating call: its place, its locals, its steps
    import_managers, \* the imports of the import manager cached on every schema
    _def_dict,       \* UseableInTemplates._def_dict of every CodeObject
    _raw_def_dict,   \* UseableInTemplates._raw_def_dict of every CodeObject
    def_dict_given,  \* history: the def_dict every CodeObject was made with
    data_values      \* the DataValues: their _language_model and _data_type

vars ==
    <<last, the_api, schemas, constructed, _parent, _children, _module,
      _language_model, _path, _owner_domain, _name, name_read, path_given,
      element, frame, import_managers, _def_dict, _raw_def_dict,
      def_dict_given, data_values>>

annotateVars == <<element, frame, import_managers>>

objectVars == <<_def_dict, _raw_def_dict, def_dict_given, data_values>>

treeVars == <<constructed, _parent, _children, _module, _language_model>>

moduleVars == <<_path, _owner_domain, _name, name_read, path_given>>

nameVars == <<the_api, schemas>>

(***************************************************************************)
(* Python values.                                                          *)
(***************************************************************************)

\* Python's None.  It is a one-element sequence whose element is not a
\* character, so it differs from every text, the empty text included.
None == << "<None>" >>

\* The truth value Python gives a text, a tuple or None.
Truthy(x) == x # None /\ x # <<>>

\* dict.get(key, default)
DictGet(d, key, default) == IF key \in DOMAIN d THEN d[key] ELSE default

\* A call that returned a value, and a call that raised an exception whose
\* message is a format template with its arguments.
Return(v) == [ok |-> TRUE, value |-> v]

Raise(exc, template, args) ==
    [ok |-> FALSE, exc |-> exc, template |-> template, args |-> args]

(***************************************************************************)
(* Text operations.                                                        *)
(***************************************************************************)

LowerChars ==
    <<"a","b","c","d","e","f","g","h","i","j","k","l","m",
      "n","o","p","q","r","s","t","u","v","w","x","y","z">>

UpperChars ==
    <<"A","B","C","D","E","F","G","H","I","J","K","L","M",
      "N","O","P","Q","R","S","T","U","V","W","X","Y","Z">>

CharUpper(c) ==
    IF \E i \in DOMAIN LowerChars : LowerChars[i] = c
    THEN UpperChars[CHOOSE i \in DOMAIN LowerChars : LowerChars[i] = c]
    ELSE c

CharLower(c) ==
    IF \E i \in DOMAIN UpperChars : UpperChars[i] = c
    THEN LowerChars[CHOOSE i \in DOMAIN UpperChars : UpperChars[i] = c]
    ELSE c

\* str.lower() and str.upper()
lower(s) == [i \in DOMAIN s |-> CharLower(s[i])]

upper(s) == [i \in DOMAIN s |-> CharUpper(s[i])]

\* str.replace(old, new) for a one-character old
RECURSIVE replace(_, _, _)
replace(s, old, new) ==
    IF s = <<>> THEN <<>>
    ELSE (IF Head(s) = old THEN new ELSE <<Head(s)>>) \o replace(Tail(s), old, new)

\* The characters utilities.CamelCase splits a name on.
_WORD_SPLIT_CHARS == {".", "_", "/", "-"}

\* utilities.CamelCase: the name is split on the word-splitting characters,
\* the first character of every part is upper-cased, and the parts are
\* joined.  Empty and None names are returned as they are.
RECURSIVE CamelCaseFrom(_, _)
CamelCaseFrom(s, atStart) ==
    IF s = <<>> THEN <<>>
    ELSE IF Head(s) \in _WORD_SPLIT_CHARS THEN CamelCaseFrom(Tail(s), TRUE)
    ELSE <<IF atStart THEN CharUpper(Head(s)) ELSE Head(s)>>
             \o CamelCaseFrom(Tail(s), FALSE)

CamelCase(s) == IF ~Truthy(s) THEN s ELSE CamelCaseFrom(s, TRUE)

\* str(n) for an integer n: its decimal digits, with a sign when negative.
Digits == <<"0","1","2","3","4","5","6","7","8","9">>

RECURSIVE NatToStr(_)
NatToStr(n) ==
    IF n < 10 THEN <<Digits[n + 1]>>
    ELSE NatToStr(n \div 10) \o <<Digits[(n % 10) + 1]>>

IntToStr(n) == IF n < 0 THEN <<"-">> \o NatToStr(0 - n) ELSE NatToStr(n)

\* fmt % arg for a format with '%s' conversions and one argument, a text.
RECURSIVE PercentFormat(_, _)
PercentFormat(fmt, arg) ==
    IF fmt = <<>> THEN <<>>
    ELSE IF Len(fmt) >= 2 /\ fmt[1] = "%" /\ fmt[2] = "s"
         THEN arg \o PercentFormat(SubSeq(fmt, 3, Len(fmt)), arg)
    ELSE <<Head(fmt)>> \o PercentFormat(Tail(fmt), arg)

(***************************************************************************)
(* Text literals of java_generator.py.                                     *)
(***************************************************************************)

s_boolean == <<"b","o","o","l","e","a","n">>
s_any == <<"a","n","y">>
s_integer == <<"i","n","t","e","g","e","r">>
s_number == <<"n","u","m","b","e","r">>
s_object == <<"o","b","j","e","c","t">>
s_string == <<"s","t","r","i","n","g">>
s_array == <<"a","r","r","a","y">>
s_map == <<"m","a","p">>
s_int16 == <<"i","n","t","1","6">>
s_int32 == <<"i","n","t","3","2">>
s_uint32 == <<"u","i","n","t","3","2">>
s_double == <<"d","o","u","b","l","e">>
s_float == <<"f","l","o","a","t">>
s_byte == <<"b","y","t","e">>
s_date == <<"d","a","t","e">>
s_date_time == <<"d","a","t","e","-","t","i","m","e">>
s_int64 == <<"i","n","t","6","4">>
s_uint64 == <<"u","i","n","t","6","4">>
s_Boolean == <<"B","o","o","l","e","a","n">>
s_Object == <<"O","b","j","e","c","t">>
s_Short == <<"S","h","o","r","t">>
s_Integer == <<"I","n","t","e","g","e","r">>
s_Long == <<"L","o","n","g">>
s_Double == <<"D","o","u","b","l","e">>
s_Float == <<"F","l","o","a","t">>
s_String == <<"S","t","r","i","n","g">>
s_DateTime == <<"D","a","t","e","T","i","m","e">>
s_UnsignedLong == <<"U","n","s","i","g","n","e","d","L","o","n","g">>
s_java_lang_Boolean == <<"j","a","v","a",".","l","a","n","g",".","B","o","o","l","e","a","n">>
s_java_lang_Object == <<"j","a","v","a",".","l","a","n","g",".","O","b","j","e","c","t">>
s_java_lang_Short == <<"j","a","v","a",".","l","a","n","g",".","S","h","o","r","t">>
s_java_lang_Integer == <<"j","a","v","a",".","l","a","n","g",".","I","n","t","e","g","e","r">>
s_java_lang_Long == <<"j","a","v","a",".","l","a","n","g",".","L","o","n","g">>
s_java_lang_Double == <<"j","a","v","a",".","l","a","n","g",".","D","o","u","b","l","e">>
s_java_lang_Float == <<"j","a","v","a",".","l","a","n","g",".","F","l","o","a","t">>
s_java_lang_String == <<"j","a","v","a",".","l","a","n","g",".","S","t","r","i","n","g">>
s_com_google_api_client_util_DateTime == <<"c","o","m",".","g","o","o","g","l","e",".","a","p","i",".","c","l","i","e","n","t",".","u","t","i","l",".","D","a","t","e","T","i","m","e">>
s_java_math_BigInteger == <<"j","a","v","a",".","m","a","t","h",".","B","i","g","I","n","t","e","g","e","r">>

(***************************************************************************)
(* JavaLanguageModel and its subclasses.                                   *)
(***************************************************************************)

LanguageModels ==
    {"JavaLanguageModel", "Java8LanguageModel", "Java14LanguageModel"}

_JSON_STRING_IMPORT == "com.google.api.client.json.JsonString"

_JSON_STRING_TEMPLATE_VALUE == "requiresJsonString"

\* ImportDefinition(imports, template_values=[])
ImportDefinition(imports, template_values) ==
    [imports |-> imports, template_values |-> template_values]

TYPE_FORMAT_TO_DATATYPE_AND_IMPORTS ==
       (<<s_boolean, None>> :> <<s_Boolean, ImportDefinition(<<"java.lang.Boolean">>, <<>>)>>)
    @@ (<<s_any, None>> :> <<s_Object, ImportDefinition(<<"java.lang.Object">>, <<>>)>>)
    @@ (<<s_integer, s_int16>> :> <<s_Short, ImportDefinition(<<"java.lang.Short">>, <<>>)>>)
    @@ (<<s_integer, s_int32>> :> <<s_Integer, ImportDefinition(<<"java.lang.Integer">>, <<>>)>>)
    @@ (<<s_integer, s_uint32>> :> <<s_Long, ImportDefinition(<<"java.lang.Long">>, <<>>)>>)
    @@ (<<s_number, s_double>> :> <<s_Double, ImportDefinition(<<"java.lang.Double">>, <<>>)>>)
    @@ (<<s_number, s_float>> :> <<s_Float, ImportDefinition(<<"java.lang.Float">>, <<>>)>>)
    @@ (<<s_object, None>> :> <<s_Object, ImportDefinition(<<"java.lang.Object">>, <<>>)>>)
    @@ (<<s_string, None>> :> <<s_String, ImportDefinition(<<"java.lang.String">>, <<>>)>>)
    @@ (<<s_string, s_byte>> :> <<s_String, ImportDefinition(<<"java.lang.String">>, <<>>)>>)
    @@ (<<s_string, s_date>> :> <<s_DateTime, ImportDefinition(<<"com.google.api.client.util.DateTime">>, <<>>)>>)
    @@ (<<s_string, s_date_time>> :> <<s_DateTime, ImportDefinition(<<"com.google.api.client.util.DateTime">>, <<>>)>>)
    @@ (<<s_string, s_int64>> :> <<s_Long, ImportDefinition(<<"java.lang.Long", _JSON_STRING_IMPORT>>, <<_JSON_STRING_TEMPLATE_VALUE>>)>>)
    @@ (<<s_string, s_uint64>> :> <<s_UnsignedLong, ImportDefinition(<<"com.google.common.primitives.UnsignedLong", _JSON_STRING_IMPORT>>, <<_JSON_STRING_TEMPLATE_VALUE>>)>>)

TYPE_FORMAT_TO_DATATYPE ==
       (<<s_boolean, None>> :> s_java_lang_Boolean)
    @@ (<<s_any, None>> :> s_java_lang_Object)
    @@ (<<s_integer, s_int16>> :> s_java_lang_Short)
    @@ (<<s_integer, s_int32>> :> s_java_lang_Integer)
    @@ (<<s_integer, s_uint32>> :> s_java_lang_Long)
    @@ (<<s_number, s_double>> :> s_java_lang_Double)
    @@ (<<s_number, s_float>> :> s_java_lang_Float)
    @@ (<<s_object, None>> :> s_java_lang_Object)
    @@ (<<s_string, None>> :> s_java_lang_String)
    @@ (<<s_string, s_byte>> :> s_java_lang_String)
    @@ (<<s_string, s_date>> :> s_com_google_api_client_util_DateTime)
    @@ (<<s_string, s_date_time>> :> s_com_google_api_client_util_DateTime)
    @@ (<<s_string, s_int64>> :> s_java_lang_Long)
    @@ (<<s_string, s_uint64>> :> s_java_math_BigInteger)

_JAVA_KEYWORDS ==
    { <<"a","b","s","t","r","a","c","t">>,
      <<"a","s","s","e","r","t">>,
      <<"b","o","o","l","e","a","n">>,
      <<"b","r","e","a","k">>,
      <<"b","y","t","e">>,
      <<"c","a","s","e">>,
      <<"c","a","t","c","h">>,
      <<"c","h","a","r">>,
      <<"c","l","a","s","s">>,
      <<"c","o","n","s","t">>,
      <<"c","o","n","t","i","n","u","e">>,
      <<"d","e","f","a","u","l","t">>,
      <<"d","o">>,
      <<"d","o","u","b","l","e">>,
      <<"e","l","s","e">>,
      <<"e","n","u","m">>,
      <<"e","x","t","e","n","d","s">>,
      <<"f","i","n","a","l">>,
      <<"f","i","n","a","l","l","y">>,
      <<"f","l","o","a","t">>,
      <<"f","o","r">>,
      <<"g","o","t","o">>,
      <<"i","f">>,
      <<"i","m","p","l","e","m","e","n","t","s">>,
      <<"i","m","p","o","r","t">>,
      <<"i","n","s","t","a","n","c","e","o","f">>,
      <<"i","n","t">>,
      <<"i","n","t","e","r","f","a","c","e">>,
      <<"l","o","n","g">>,
      <<"n","a","t","i","v","e">>,
      <<"n","e","w">>,
      <<"p","a","c","k","a","g","e">>,
      <<"p","r","i","v","a","t","e">>,
      <<"p","r","o","t","e","c","t","e","d">>,
      <<"p","u","b","l","i","c">>,
      <<"r","e","t","u","r","n">>,
      <<"s","h","o","r","t">>,
      <<"s","t","a","t","i","c">>,
      <<"s","t","r","i","c","t","f","p">>,
      <<"s","u","p","e","r">>,
      <<"s","w","i","t","c","h">>,
      <<"s","y","n","c","h","r","o","n","i","z","e","d">>,
      <<"t","h","i","s">>,
      <<"t","h","r","o","w">>,
      <<"t","h","r","o","w","s">>,
      <<"t","r","a","n","s","i","e","n","t">>,
      <<"t","r","y">>,
      <<"v","o","i","d">>,
      <<"v","o","l","a","t","i","l","e">>,
      <<"w","h","i","l","e">> }

_SPECIAL_CLASS_NAMES == { <<"e","n","t","r","y">> }

RESERVED_CLASS_NAMES ==
    _JAVA_KEYWORDS \cup _SPECIAL_CLASS_NAMES \cup
    { s_float, s_integer, s_object, s_string,
      <<"t","r","u","e">>, <<"f","a","l","s","e">> }

\* JavaLanguageModel.__init__ sets _type_map for every subclass.
type_map(model) == TYPE_FORMAT_TO_DATATYPE_AND_IMPORTS

\* A faulty variant: an unmapped pair falls back to the json type as it is.
Mutant_GetCodeType_RawFallback(self, def_dict) ==
    LET json_type == DictGet(def_dict, "type", s_string)
        json_format == DictGet(def_dict, "format", None)
        datatype_and_imports ==
            DictGet(type_map(self), <<json_type, json_format>>, None)
    IN  IF Truthy(datatype_and_imports)
        THEN Return(datatype_and_imports[1])
        ELSE Return(json_type)

JavaLanguageModel_GetCodeTypeFromDictionary(self, def_dict) ==
    LET json_type == DictGet(def_dict, "type", s_string)
        json_format == DictGet(def_dict, "format", None)
        datatype_and_imports ==
            DictGet(type_map(self), <<json_type, json_format>>, None)
    IN  IF Truthy(datatype_and_imports)
        THEN Return(datatype_and_imports[1])
        ELSE Return(CamelCase(json_type))

Java14LanguageModel_GetCodeTypeFromDictionary(self, def_dict) ==
    LET json_type == DictGet(def_dict, "type", s_string)
        json_format == DictGet(def_dict, "format", None)
        datatype ==
            DictGet(TYPE_FORMAT_TO_DATATYPE, <<json_type, json_format>>, None)
    IN  IF Truthy(datatype)
        THEN Return(datatype)
        ELSE Return(CamelCase(json_type))

\* Method resolution: Java14LanguageModel overrides, Java8LanguageModel inherits.
GetCodeTypeFromDictionary(model, def_dict) ==
    IF model = "Java14LanguageModel"
    THEN Java14LanguageModel_GetCodeTypeFromDictionary(model, def_dict)
    ELSE JavaLanguageModel_GetCodeTypeFromDictionary(model, def_dict)

_IntValueError ==
    "Provided DataValue (%s) does not present an appropriate Java annotated code type (%s)."

\* _Int of a literal-format table: the KeyError of the lookup becomes a
\* ValueError formatted with the value and the code type.
_IntWith(code_types, data_value) ==
    IF data_value.code_type \in DOMAIN code_types
    THEN Return(PercentFormat(code_types[data_value.code_type],
                              IntToStr(data_value.value)))
    ELSE Raise("ValueError", _IntValueError,
               <<IntToStr(data_value.value), data_value.code_type>>)

\* A faulty variant: the Long literal loses its suffix.
Mutant_Int_NoLongSuffix(data_value) ==
    _IntWith((s_Short :> <<"%","s">>) @@ (s_Integer :> <<"%","s">>)
                 @@ (s_Long :> <<"%","s">>),
             data_value)

JavaLanguageModel__Int(data_value) ==
    _IntWith((s_Short :> <<"%","s">>) @@ (s_Integer :> <<"%","s">>)
                 @@ (s_Long :> <<"%","s","L">>),
             data_value)

Java14LanguageModel__Int(data_value) ==
    _IntWith((s_java_lang_Short :> <<"%","s">>)
                 @@ (s_java_lang_Integer :> <<"%","s">>)
                 @@ (s_java_lang_Long :> <<"%","s","L">>),
             data_value)

_Int(model, data_value) ==
    IF model = "Java14LanguageModel"
    THEN Java14LanguageModel__Int(data_value)
    ELSE JavaLanguageModel__Int(data_value)

\* A faulty variant: the service name is prepended without the camel-cased
\* wire name.
Mutant_ToMemberName_PrefixOnly(s, api) ==
    LET camel_s == CamelCase(s)
    IN  IF lower(s) \in RESERVED_CLASS_NAMES
        THEN Return(api.name)
        ELSE IF camel_s = <<>>
        THEN Raise("IndexError", "string index out of range", <<>>)
        ELSE Return(<<CharLower(camel_s[1])>> \o Tail(camel_s))

\* JavaLanguageModel.ToMemberName.  camel_s[0] of an empty text raises.
ToMemberName(s, api) ==
    LET camel_s == CamelCase(s)
    IN  IF lower(s) \in RESERVED_CLASS_NAMES
        THEN Return(api.name \o camel_s)
        ELSE IF camel_s = <<>>
        THEN Raise("IndexError", "string index out of range", <<>>)
        ELSE Return(<<CharLower(camel_s[1])>> \o Tail(camel_s))

\* The loop of ToSafeClassName over parent.full_path, root first: a name
\* equal to the safe class name of the ancestor at hand is prefixed with the
\* parent's class name, and the loop goes on with the prefixed name.
RECURSIVE PrefixOnAncestorMatch(_, _, _)
PrefixOnAncestorMatch(full_path, parent, safe_class_name) ==
    IF full_path = <<>> THEN safe_class_name
    ELSE PrefixOnAncestorMatch(
             Tail(full_path), parent,
             IF Head(full_path).safeClassName = safe_class_name
             THEN parent.className \o safe_class_name
             ELSE safe_class_name)

\* JavaLanguageModel.ToSafeClassName.  full_path is parent.full_path, from
\* the outermost ancestor down to the parent, and <<>> when parent is None.
ToSafeClassName(s, api, full_path) ==
    LET candidate ==
            IF full_path = <<>> THEN CamelCase(s)
            ELSE PrefixOnAncestorMatch(full_path, full_path[Len(full_path)],
                                       CamelCase(s))
    IN  IF lower(candidate) \in RESERVED_CLASS_NAMES
        THEN CamelCase(api.name) \o CamelCase(s)
        ELSE candidate

\* JavaApi.ToClassName.  The Api has no _class_name of its own, and its
\* className template value is its camel-cased name.
ToClassName(api, s, element_type) ==
    LET name == replace(CamelCase(s), " ", <<>>)
    IN  IF lower(name) \in RESERVED_CLASS_NAMES
        THEN CamelCase(api.name) \o name
        ELSE IF name = CamelCase(api.name)
        THEN (IF element_type = "resource"
              THEN name \o <<"O","p","e","r","a","t","i","o","n","s">>
              ELSE IF element_type = "method"
              THEN name \o <<"O","p","e","r","a","t","i","o","n">>
              ELSE name)
        ELSE name

(***************************************************************************)
(* CodeObject: the tree of template objects.                               *)
(***************************************************************************)

\* The number of CodeObjects.
NumNodes == 3

Nodes == 1..NumNodes

\* The Modules that may be assigned to a CodeObject.
ModuleRefs == {1, 2}

\* The None of an object reference.
Null == 0

\* list.remove(x): the list without the first occurrence of x.
RECURSIVE ListRemove(_, _)
ListRemove(list, x) ==
    IF list = <<>> THEN <<>>
    ELSE IF Head(list) = x THEN Tail(list)
    ELSE <<Head(list)>> \o ListRemove(Tail(list), x)

Contains(list, x) == \E i \in DOMAIN list : list[i] = x

\* A faulty variant: the node is not removed from its old parent's children.
Mutant_SetParent_NoRemove(self, parent) ==
    LET appended ==
            IF parent # Null
            THEN [_children EXCEPT ![parent] = Append(@, self)]
            ELSE _children
    IN  [raised |-> FALSE,
         _parent |-> [_parent EXCEPT ![self] = parent],
         _children |-> appended]

\* CodeObject.SetParent: the _parent and _children it leaves.  The remove
\* raises a ValueError, before anything is assigned, when the node is not in
\* the children of its parent.
SetParent(self, parent) ==
    IF _parent[self] # Null /\ ~Contains(_children[_parent[self]], self)
    THEN [raised |-> TRUE, _parent |-> _parent, _children |-> _children]
    ELSE LET removed ==
                 IF _parent[self] # Null
                 THEN [_children EXCEPT
                          ![_parent[self]] = ListRemove(@, self)]
                 ELSE _children
             appended ==
                 IF parent # Null
                 THEN [removed EXCEPT ![parent] = Append(@, self)]
                 ELSE removed
         IN  [raised |-> FALSE,
              _parent |-> [_parent EXCEPT ![self] = parent],
              _children |-> appended]

_moduleValueError == "Asked for module of CodeObject without any: %s, %s"

\* A faulty variant: the walk stops at the parent.
RECURSIVE Mutant_module_ParentOnly(_, _)
Mutant_module_ParentOnly(self, depth) ==
    IF _module[self] # Null THEN Return(_module[self])
    ELSE IF _parent[self] # Null /\ _module[_parent[self]] # Null
    THEN Return(_module[_parent[self]])
    ELSE Raise("ValueError", _moduleValueError, <<self>>)

\* A faulty variant: the Module of the parent is preferred to the node's own.
RECURSIVE Mutant_module_ParentFirst(_, _)
Mutant_module_ParentFirst(self, depth) ==
    LET own == IF _module[self] # Null THEN Return(_module[self])
               ELSE Raise("ValueError", _moduleValueError, <<self>>)
    IN  IF _parent[self] # Null /\ depth > 0
        THEN LET up == Mutant_module_ParentFirst(_parent[self], depth - 1)
             IN  IF up.ok THEN up ELSE own
        ELSE own

\* CodeObject.module, read with the given recursion depth left.  A parent
\* chain that runs in a circle exhausts the recursion depth.
RECURSIVE moduleAtDepth(_, _)
moduleAtDepth(self, depth) ==
    IF _module[self] # Null THEN Return(_module[self])
    ELSE IF _parent[self] # Null
    THEN (IF depth = 0
          THEN Raise("RuntimeError", "maximum recursion depth exceeded", <<>>)
          ELSE moduleAtDepth(_parent[self], depth - 1))
    ELSE Raise("ValueError", _moduleValueError, <<self>>)

\* No chain of distinct CodeObjects is longer than NumNodes.
module(self) == moduleAtDepth(self, NumNodes)

(***************************************************************************)
(* Module: a CodeObject with a path and a memoized name.                   *)
(***************************************************************************)

\* The None of a language model reference.
NoModel == "None"

\* A faulty variant: the walk memoizes nothing.
RECURSIVE Mutant_language_model_NoMemo(_, _, _)
Mutant_language_model_NoMemo(lm, self, depth) ==
    IF lm[self] # NoModel
    THEN [raised |-> FALSE, value |-> lm[self], _language_model |-> lm]
    ELSE IF _parent[self] # Null
    THEN (IF depth = 0
          THEN [raised |-> TRUE, value |-> NoModel, _language_model |-> lm]
          ELSE Mutant_language_model_NoMemo(lm, _parent[self], depth - 1))
    ELSE [raised |-> FALSE, value |-> NoModel, _language_model |-> lm]

\* CodeObject.language_model, read with the given recursion depth left:
\* the value returned and the _language_model the read leaves, every node
\* passed on the way up memoizing what its parent returned.
RECURSIVE language_modelAtDepth(_, _, _)
language_modelAtDepth(lm, self, depth) ==
    IF lm[self] # NoModel
    THEN [raised |-> FALSE, value |-> lm[self], _language_model |-> lm]
    ELSE IF _parent[self] # Null
    THEN (IF depth = 0
          THEN [raised |-> TRUE, value |-> NoModel, _language_model |-> lm]
          ELSE LET up == language_modelAtDepth(lm, _parent[self], depth - 1)
               IN  IF up.raised THEN up
                   ELSE [raised |-> FALSE, value |-> up.value,
                         _language_model |->
                             [up._language_model EXCEPT ![self] = up.value]])
    ELSE [raised |-> FALSE, value |-> NoModel, _language_model |-> lm]

language_model(self) == language_modelAtDepth(_language_model, self, NumNodes)

\* LanguageModel.module_name_delimiter of the Java language models.
module_name_delimiter(model) == <<".">>

\* str.split(sep) for a one-character sep, and sep.join(parts).
RECURSIVE split(_, _)
split(s, sep) ==
    IF \E i \in DOMAIN s : s[i] = sep
    THEN LET i == CHOOSE i \in DOMAIN s :
                      s[i] = sep /\ \A j \in 1..(i - 1) : s[j] # sep
         IN  <<SubSeq(s, 1, i - 1)>> \o split(SubSeq(s, i + 1, Len(s)), sep)
    ELSE <<s>>

RECURSIVE join(_, _)
join(sep, parts) ==
    IF parts = <<>> THEN <<>>
    ELSE IF Len(parts) = 1 THEN parts[1]
    ELSE parts[1] \o sep \o join(sep, Tail(parts))

reverse(list) == [i \in DOMAIN list |-> list[Len(list) + 1 - i]]

\* utilities.ReversedDomainComponents: the components of a domain, last
\* first; none for an empty or missing domain.
ReversedDomainComponents(s) ==
    IF ~Truthy(s) THEN <<>> ELSE reverse(split(s, "."))

s_google_com == <<"g","o","o","g","l","e",".","c","o","m">>

s_com_google_api_services ==
    <<"c","o","m","/","g","o","o","g","l","e","/","a","p","i","/",
      "s","e","r","v","i","c","e","s">>

\* JavaLanguageModel.DefaultContainerPathForOwner
DefaultContainerPathForOwner(owner_domain) ==
    IF owner_domain = s_google_com THEN s_com_google_api_services
    ELSE join(<<"/">>, ReversedDomainComponents(owner_domain))

\* The parts of a list that are true.
RECURSIVE Truthies(_)
Truthies(parts) ==
    IF parts = <<>> THEN <<>>
    ELSE (IF Truthy(Head(parts)) THEN <<Head(parts)>> ELSE <<>>)
             \o Truthies(Tail(parts))

_NoneAttributeError == "'NoneType' object has no attribute '%s'"

\* Module.path, read with the given recursion depth left.  At the root the
\* language model is asked for the default container path, which raises an
\* AttributeError when there is no language model.
RECURSIVE pathAtDepth(_, _)
pathAtDepth(self, depth) ==
    LET base_path ==
            IF _parent[self] # Null
            THEN (IF depth = 0
                  THEN Raise("RuntimeError",
                             "maximum recursion depth exceeded", <<>>)
                  ELSE pathAtDepth(_parent[self], depth - 1))
            ELSE IF _language_model[self] = NoModel
            THEN Raise("AttributeError", _NoneAttributeError,
                       <<"DefaultContainerPathForOwner">>)
            ELSE Return(DefaultContainerPathForOwner(_owner_domain[self]))
    IN  IF ~base_path.ok THEN base_path
        ELSE Return(join(<<"/">>, Truthies(<<base_path.value, _path[self]>>)))

path(self) == pathAtDepth(self, NumNodes)

\* A faulty variant: a path that was set is kept.
Mutant_SetPath_KeepFirst(self, new_path) ==
    IF Truthy(_name[self])
    THEN [result |-> Raise("ValueError",
                           "SetPath called after first use of name property",
                           <<>>),
          _path |-> _path]
    ELSE [result |-> Return(None),
          _path |-> IF Truthy(_path[self]) THEN _path
                    ELSE [_path EXCEPT ![self] = new_path]]

\* Module.SetPath: its outcome and the _path it leaves.
SetPath(self, new_path) ==
    IF Truthy(_name[self])
    THEN [result |-> Raise("ValueError",
                           "SetPath called after first use of name property",
                           <<>>),
          _path |-> _path]
    ELSE [result |-> Return(None),
          _path |-> [_path EXCEPT ![self] = new_path]]

\* Module.name: its outcome, and the _name and _language_model it leaves.
\* The path is computed first, then the language model is read, and the
\* name is stored.
name(self) ==
    IF Truthy(_name[self])
    THEN [result |-> Return(_name[self]), _name |-> _name,
          _language_model |-> _language_model]
    ELSE LET p == path(self)
             lm == language_model(self)
         IN  IF ~p.ok
             THEN [result |-> p, _name |-> _name,
                   _language_model |-> _language_model]
             ELSE IF lm.raised
             THEN [result |-> Raise("RuntimeError",
                                    "maximum recursion depth exceeded", <<>>),
                   _name |-> _name, _language_model |-> _language_model]
             ELSE IF lm.value = NoModel
             THEN [result |-> Raise("AttributeError", _NoneAttributeError,
                                    <<"module_name_delimiter">>),
                   _name |-> _name, _language_model |-> lm._language_model]
             ELSE LET text == replace(p.value, "/",
                                      module_name_delimiter(lm.value))
                  IN  [result |-> Return(text),
                       _name |-> [_name EXCEPT ![self] = text],
                       _language_model |-> lm._language_model]

(***************************************************************************)
(* The Java generators: annotation of Properties and Parameters.           *)
(***************************************************************************)

\* The generators of the file, and a subclass of BaseJavaGenerator made to
\* override _InnerModelClassesSupported, for a language with no inner classes.
Generators ==
    {"BaseJavaGenerator", "Java8Generator", "Java12Generator",
     "Java14Generator", "NoInnerClassesGenerator"}

\* cls._GetDefaultLanguageModel()
_GetDefaultLanguageModel(generator) ==
    IF generator = "Java8Generator" THEN "Java8LanguageModel"
    ELSE IF generator = "Java14Generator" THEN "Java14LanguageModel"
    ELSE "JavaLanguageModel"

\* BaseJavaGenerator._InnerModelClassesSupported returns True, and no
\* generator of the file overrides it; the override returns False.
_InnerModelClassesSupported(generator) ==
    generator # "NoInnerClassesGenerator"

\* A data type is the sequence of its layers, outermost first: array and
\* map wrappers, each with the rest of the sequence as its _base_type, around
\* a leaf.  A layer has a json_type and the values of its definition.
_base_type(data_type) == Tail(data_type)

json_type_of(data_type) == Head(data_type).json_type

\* The loop test of both handlers.
IsCollection(json_type) == json_type = s_array \/ json_type = s_map

\* A faulty variant: uint64 is not marked.
Mutant_RequiresJsonString_Int64Only(json_type, json_format) ==
    json_type = s_string /\ json_format = s_int64

\* The test of Java14Generator._HandleJsonString on the leaf type.
RequiresJsonString(json_type, json_format) ==
    json_type = s_string /\ (json_format = s_int64 \/ json_format = s_uint64)

\* A faulty variant: the format is read from the element's own data type.
Mutant_LeafFormat_OfElement(elem, data_type) ==
    DictGet(Head(elem.data_type).values, "format", None)

\* json_format = data_type.values.get('format'), after the loop.
LeafFormat(elem, data_type) == DictGet(Head(data_type).values, "format", None)

\* The schemas an element may belong to are nested one in the other:
\* schema k + 1 is a child of schema k, and schema 1 has no parent.
SchemaParent(schema) == schema - 1

\* The loop of _HandleImports up the parents of the element's schema.
RECURSIVE TopLevelParent(_)
TopLevelParent(schema) ==
    IF SchemaParent(schema) # Null THEN TopLevelParent(SchemaParent(schema))
    ELSE schema

\* A faulty variant: the import manager of the element's own schema.
Mutant_ImportManagerOwner_OwnSchema(generator, elem) == elem.schema

\* The schema on which _HandleImports looks for the import manager.
ImportManagerOwner(generator, elem) ==
    IF _InnerModelClassesSupported(generator)
    THEN TopLevelParent(elem.schema)
    ELSE elem.schema

\* element.SetTemplateValue(name, True) for every name of a list.
RECURSIVE SetTemplateValues(_, _)
SetTemplateValues(values, names) ==
    IF names = <<>> THEN values
    ELSE SetTemplateValues((Head(names) :> TRUE) @@ values, Tail(names))

\* The part of _HandleImports after the loop: the element's values and the
\* imports it leaves, for the leaf json type and format.
_HandleImportsLookup(model, owner, elem, json_type, json_format) ==
    LET datatype_and_imports ==
            DictGet(type_map(model), <<json_type, json_format>>, None)
    IN  IF Truthy(datatype_and_imports)
        THEN LET import_definition == datatype_and_imports[2]
             IN  [values |-> SetTemplateValues(elem.values,
                                 import_definition.template_values),
                  imports |->
                      [import_managers EXCEPT ![owner] =
                          @ \cup {import_definition.imports[i] :
                                     i \in DOMAIN import_definition.imports}]]
        ELSE [values |-> elem.values, imports |-> import_managers]

\* The part of _HandleJsonString after the loop.
_HandleJsonStringLookup(elem, json_type, json_format) ==
    IF RequiresJsonString(json_type, json_format)
    THEN [values |-> SetTemplateValues(elem.values, <<"requiresJsonString">>),
          imports |-> import_managers]
    ELSE [values |-> elem.values, imports |-> import_managers]

(***************************************************************************)
(* Calls on the language models: type resolution and literal rendering.    *)
(***************************************************************************)

\* The largest magnitude of an integer DataValue.
MaxIntValue == 12

\* The json types and formats of schema fragments: those of the mapping
\* tables, and some the tables do not have.
JsonTypes ==
    { s_boolean, s_any, s_integer, s_number, s_object, s_string, s_array,
      <<"n","u","l","l">> }

JsonFormats ==
    { s_int16, s_int32, s_uint32, s_double, s_float, s_byte, s_date,
      s_date_time, s_int64, s_uint64, <<"i","n","t","8">> }

\* A schema fragment with the given type and format; None leaves the key out.
SchemaFragment(t, f) ==
    [k \in (IF t = None THEN {} ELSE {"type"})
             \cup (IF f = None THEN {} ELSE {"format"}) |->
        IF k = "type" THEN t ELSE f]

\* The code types an integer DataValue may present.
CodeTypes ==
    { s_Short, s_Integer, s_Long, s_String, s_UnsignedLong,
      s_java_lang_Short, s_java_lang_Integer, s_java_lang_Long,
      s_java_lang_String, s_java_math_BigInteger }

NoCall == [op |-> "none"]

CallGetCodeTypeFromDictionary ==
    \E model \in LanguageModels, t \in JsonTypes \cup {None},
       f \in JsonFormats \cup {None} :
        /\ last' = [op |-> "GetCodeTypeFromDictionary",
                 model |-> model,
                 def_dict |-> SchemaFragment(t, f),
                 result |-> GetCodeTypeFromDictionary(model, SchemaFragment(t, f))]
        /\ UNCHANGED <<nameVars, treeVars, moduleVars, annotateVars, objectVars>>

Call_Int ==
    \E model \in LanguageModels, v \in (0 - MaxIntValue)..MaxIntValue,
       ct \in CodeTypes :
        LET data_value == [value |-> v, code_type |-> ct]
        IN  /\ last' = [op |-> "_Int",
                        model |-> model,
                        data_value |-> data_value,
                        result |-> _Int(model, data_value)]
            /\ UNCHANGED <<nameVars, treeVars, moduleVars, annotateVars, objectVars>>

NoApi == [name |-> <<>>]

\* The deepest nesting of the schema of an annotated element.
MaxSchemaDepth == 2

\* The most array and map wrappers of a data type.
MaxWrappers == 2

NoElement == [data_type |-> <<>>, schema |-> Null, values |-> <<>>]

NoFrame ==
    [pc |-> "idle", generator |-> "BaseJavaGenerator",
     model |-> "JavaLanguageModel"]

\* No element is being annotated and no import manager has an import.
NoAnnotation ==
    /\ element = NoElement
    /\ frame = NoFrame
    /\ import_managers = [k \in 1..MaxSchemaDepth |-> {}]

\* No CodeObject has template values and there is no DataValue.
NoObjects ==
    /\ _def_dict = [n \in Nodes |-> <<>>]
    /\ _raw_def_dict = [n \in Nodes |-> <<>>]
    /\ def_dict_given = [n \in Nodes |-> <<>>]
    /\ data_values = <<>>

\* No CodeObject is constructed.
NoTree ==
    /\ constructed = {}
    /\ _parent = [n \in Nodes |-> Null]
    /\ _children = [n \in Nodes |-> <<>>]
    /\ _module = [n \in Nodes |-> Null]
    /\ _language_model = [n \in Nodes |-> NoModel]
    /\ _path = [n \in Nodes |-> None]
    /\ _owner_domain = [n \in Nodes |-> None]
    /\ _name = [n \in Nodes |-> None]
    /\ name_read = {}
    /\ path_given = [n \in Nodes |-> None]
    /\ NoAnnotation
    /\ NoObjects

InitTypes == last = NoCall /\ the_api = NoApi /\ schemas = <<>> /\ NoTree

NextTypes == CallGetCodeTypeFromDictionary \/ Call_Int

SpecTypes == InitTypes /\ [][NextTypes]_vars

(***************************************************************************)
(* Naming: member names, and the class names of nested schemas.            *)
(***************************************************************************)

\* The deepest nesting of schemas.
MaxNesting == 3

WireNames ==
    { <<"a">>, <<"a","_","a">>, <<"t","r","y">>, <<"t","r","_","y">>,
      <<"e","n","T","r","y">> }

ApiNames == { <<"a">>, <<"e","n">> }

\* A schema of the given wire name under the parent whose full_path is
\* given: its className is the Api's class name for the wire name, its
\* safeClassName is the language model's.
Schema(s, full_path) ==
    [wireName |-> s,
     className |-> ToClassName(the_api, s, "schema"),
     safeClassName |-> ToSafeClassName(s, the_api, full_path)]

CallToMemberName ==
    \E s \in WireNames :
        /\ last' = [op |-> "ToMemberName", s |-> s,
                    result |-> ToMemberName(s, the_api)]
        /\ UNCHANGED <<nameVars, treeVars, moduleVars, annotateVars, objectVars>>

\* A schema with no parent: ToSafeClassName is called with parent None.
DefineTopLevelSchema ==
    \E s \in WireNames :
        /\ schemas' = <<Schema(s, <<>>)>>
        /\ last' = [op |-> "ToSafeClassName", s |-> s, full_path |-> <<>>,
                    result |-> Schema(s, <<>>).safeClassName]
        /\ UNCHANGED <<the_api, treeVars, moduleVars, annotateVars, objectVars>>

\* A schema nested in the innermost schema defined so far.
DefineNestedSchema ==
    \E s \in WireNames :
        /\ schemas # <<>>
        /\ Len(schemas) < MaxNesting
        /\ schemas' = Append(schemas, Schema(s, schemas))
        /\ last' = [op |-> "ToSafeClassName", s |-> s, full_path |-> schemas,
                    result |-> Schema(s, schemas).safeClassName]
        /\ UNCHANGED <<the_api, treeVars, moduleVars, annotateVars, objectVars>>

InitNames ==
    /\ last = NoCall
    /\ the_api \in {[name |-> n] : n \in ApiNames}
    /\ schemas = <<>>
    /\ NoTree

NextNames == CallToMemberName \/ DefineTopLevelSchema \/ DefineNestedSchema

SpecNames == InitNames /\ [][NextNames]_vars

(***************************************************************************)
(* The CodeObject tree: construction, reparenting, module assignment.      *)
(***************************************************************************)

\* CodeObject.__init__(def_dict, api, parent): the next CodeObject is made
\* with no children, no parent and no module, and SetParent(parent) is
\* called on it.
Construct ==
    \E parent \in constructed \cup {Null} :
        LET self == Cardinality(constructed) + 1
            set == SetParent(self, parent)
        IN  /\ self \in Nodes
            /\ constructed' = constructed \cup {self}
            /\ _parent' = set._parent
            /\ _children' = set._children
            /\ last' = [op |-> "__init__"]
            /\ UNCHANGED <<_module, _language_model, nameVars, moduleVars,
                           annotateVars, objectVars>>

CallSetParent ==
    \E self \in constructed, parent \in constructed \cup {Null} :
        LET set == SetParent(self, parent)
        IN  /\ _parent' = set._parent
            /\ _children' = set._children
            /\ last' = [op |-> "SetParent", raised |-> set.raised]
            /\ UNCHANGED <<constructed, _module, _language_model, nameVars,
                           moduleVars, annotateVars, objectVars>>

\* node._module = m, as a generator does to place a node in a Module.
AssignModule ==
    \E self \in constructed, m \in ModuleRefs :
        /\ _module' = [_module EXCEPT ![self] = m]
        /\ last' = [op |-> "_module ="]
        /\ UNCHANGED <<constructed, _parent, _children, _language_model, nameVars,
                       moduleVars, annotateVars, objectVars>>

ReadModule ==
    \E self \in constructed :
        /\ last' = [op |-> "module", self |-> self, result |-> module(self)]
        /\ UNCHANGED <<treeVars, nameVars, moduleVars, annotateVars, objectVars>>

InitTree == last = NoCall /\ the_api = NoApi /\ schemas = <<>> /\ NoTree

NextTree == Construct \/ CallSetParent \/ AssignModule \/ ReadModule

SpecTree == InitTree /\ [][NextTree]_vars

(***************************************************************************)
(* Modules: construction, SetPath and reads of name.                       *)
(***************************************************************************)

\* The number of Modules.
NumModules == 2

\* The paths given to a Module.
Paths == { <<>>, <<"a">>, <<"b","/","c">> }

\* The sanitized owner domains of a Module with no parent.
OwnerDomains == { None, s_google_com }

\* Module.__init__(path, owner_name, owner_domain, parent, language_model).
\* A Module with no parent is given a language model; a Module with a
\* parent has no owner and takes the language model of its parent.
ConstructModule ==
    \E parent \in constructed \cup {Null}, p \in {None, <<"a">>},
       domain \in OwnerDomains,
       model \in {"JavaLanguageModel", NoModel} :
        LET self == Cardinality(constructed) + 1
            set == SetParent(self, parent)
        IN  /\ self \in 1..NumModules
            /\ IF parent = Null THEN model # NoModel
               ELSE model = NoModel /\ domain = None
            /\ constructed' = constructed \cup {self}
            /\ _parent' = set._parent
            /\ _children' = set._children
            /\ _language_model' = [_language_model EXCEPT ![self] = model]
            /\ _path' = [_path EXCEPT ![self] = p]
            /\ _owner_domain' = [_owner_domain EXCEPT ![self] = domain]
            /\ last' = [op |-> "Module"]
            /\ UNCHANGED <<_module, _name, name_read, path_given, nameVars,
                           annotateVars, objectVars>>

CallSetPath ==
    \E self \in constructed, p \in Paths :
        LET set == SetPath(self, p)
        IN  /\ _path' = set._path
            /\ path_given' = [path_given EXCEPT ![self] = p]
            /\ last' = [op |-> "SetPath",
                        name_was_read |-> self \in name_read,
                        result |-> set.result]
            /\ UNCHANGED <<treeVars, _owner_domain, _name, name_read,
                           nameVars, annotateVars, objectVars>>

ReadName ==
    \E self \in constructed :
        LET read == name(self)
        IN  /\ _name' = read._name
            /\ _language_model' = read._language_model
            /\ name_read' = name_read \cup {self}
            /\ last' = [op |-> "name", self |-> self,
                        name_was_read |-> self \in name_read,
                        result |-> read.result]
            /\ UNCHANGED <<constructed, _parent, _children, _module, _path,
                           _owner_domain, path_given, nameVars,
                           annotateVars, objectVars>>

InitModules == last = NoCall /\ the_api = NoApi /\ schemas = <<>> /\ NoTree

NextModules == ConstructModule \/ CallSetPath \/ ReadName

SpecModules == InitModules /\ [][NextModules]_vars

(***************************************************************************)
(* Annotation: AnnotateProperty and AnnotateParameter, step by step.       *)
(***************************************************************************)

\* The wrapper layers and the leaves of the data types of elements.  A
\* wrapper may carry a format of its own; the definition of a leaf may lack
\* a type, and its json_type is then "string" or none.
WrapperLayers ==
    { [json_type |-> t, values |-> SchemaFragment(t, f)] :
          t \in {s_array, s_map}, f \in {None, s_int64} }

LeafLayers ==
    { [json_type |-> t[1], values |-> SchemaFragment(t[2], f)] :
          t \in { <<s_string, s_string>>, <<s_integer, s_integer>>,
                  <<s_string, None>>, <<None, None>> },
          f \in {None, s_int64, s_uint64, s_int32} }

RECURSIVE WrapperSeqs(_)
WrapperSeqs(n) ==
    IF n = 0 THEN { <<>> }
    ELSE WrapperSeqs(n - 1) \cup
         { <<w>> \o ws : w \in WrapperLayers,
                         ws \in {x \in WrapperSeqs(n - 1) : Len(x) = n - 1} }

DataTypes == { ws \o <<l>> : ws \in WrapperSeqs(MaxWrappers), l \in LeafLayers }

\* AnnotateProperty or AnnotateParameter is called on an element: the
\* handler of the generator reads the element's data type and its json type.
StartAnnotate ==
    \E dt \in DataTypes, schema \in 1..MaxSchemaDepth :
        /\ frame.pc = "idle"
        /\ element' = [data_type |-> dt, schema |-> schema, values |-> <<>>]
        /\ frame' = [pc |-> "loop",
                     generator |-> frame.generator,
                     model |-> frame.model,
                     data_type |-> dt,
                     json_type |-> json_type_of(dt),
                     steps |-> 0,
                     lookup |-> <<>>]
        /\ UNCHANGED <<import_managers, last, nameVars, treeVars, moduleVars,
                   objectVars>>

\* One turn of the loop: data_type = data_type._base_type.
Unwrap ==
    /\ frame.pc = "loop"
    /\ IsCollection(frame.json_type)
    /\ frame' = [frame EXCEPT
                    !.data_type = _base_type(frame.data_type),
                    !.json_type = json_type_of(_base_type(frame.data_type)),
                    !.steps = @ + 1]
    /\ UNCHANGED <<element, import_managers, last, nameVars, treeVars, moduleVars,
                   objectVars>>

\* The loop is left: the format is read and looked up with the json type.
Lookup ==
    /\ frame.pc = "loop"
    /\ ~IsCollection(frame.json_type)
    /\ LET json_format == LeafFormat(element, frame.data_type)
           done ==
               IF frame.generator = "Java14Generator"
               THEN _HandleJsonStringLookup(element, frame.json_type,
                                            json_format)
               ELSE _HandleImportsLookup(
                        frame.model,
                        ImportManagerOwner(frame.generator, element),
                        element, frame.json_type, json_format)
       IN  /\ element' = [element EXCEPT !.values = done.values]
           /\ import_managers' = done.imports
           /\ frame' = [frame EXCEPT
                           !.pc = "done",
                           !.lookup = <<frame.json_type, json_format>>]
    /\ UNCHANGED <<last, nameVars, treeVars, moduleVars,
                   objectVars>>

\* A generator is constructed with its default language model, and has
\* annotated nothing.
InitAnnotate ==
    /\ last = NoCall /\ the_api = NoApi /\ schemas = <<>>
    /\ constructed = {}
    /\ _parent = [n \in Nodes |-> Null]
    /\ _children = [n \in Nodes |-> <<>>]
    /\ _module = [n \in Nodes |-> Null]
    /\ _language_model = [n \in Nodes |-> NoModel]
    /\ _path = [n \in Nodes |-> None]
    /\ _owner_domain = [n \in Nodes |-> None]
    /\ _name = [n \in Nodes |-> None]
    /\ name_read = {}
    /\ path_given = [n \in Nodes |-> None]
    /\ element = NoElement
    /\ import_managers = [k \in 1..MaxSchemaDepth |-> {}]
    /\ NoObjects
    /\ \E generator \in Generators :
           frame = [pc |-> "idle", generator |-> generator,
                    model |-> _GetDefaultLanguageModel(generator)]

NextAnnotate == StartAnnotate \/ Unwrap \/ Lookup

SpecAnnotate == InitAnnotate /\ [][NextAnnotate]_vars

\* A call runs to its end: the loop and the lookup are not put off for ever.
SpecAnnotateFair ==
    SpecAnnotate /\ WF_vars(Unwrap) /\ WF_vars(Lookup)

(***************************************************************************)
(* UseableInTemplates: the template values of an object.                   *)
(***************************************************************************)

\* d[key] = value and del d[key] on a dict.
DictSet(d, key, value) ==
    [k \in DOMAIN d \cup {key} |-> IF k = key THEN value ELSE d[k]]

DictDel(d, key) == [k \in DOMAIN d \ {key} |-> d[k]]

\* UseableInTemplates.__init__: _def_dict is a copy of def_dict and
\* _raw_def_dict a deep copy of it.
UseableInTemplates__init__(self, dict) ==
    [_def_dict |-> [_def_dict EXCEPT ![self] = dict],
     _raw_def_dict |-> [_raw_def_dict EXCEPT ![self] = dict]]

\* UseableInTemplates.GetTemplateValue
GetTemplateValue(self, key) == DictGet(_def_dict[self], key, None)

\* A faulty variant: the value is set in the raw dictionary as well.
Mutant_SetTemplateValue_AlsoRaw(self, key, value) ==
    [_def_dict |-> [_def_dict EXCEPT ![self] = DictSet(@, key, value)],
     _raw_def_dict |-> [_raw_def_dict EXCEPT ![self] = DictSet(@, key, value)]]

\* UseableInTemplates.SetTemplateValue: the dictionaries it leaves.
SetTemplateValue(self, key, value) ==
    [_def_dict |-> [_def_dict EXCEPT ![self] = DictSet(@, key, value)],
     _raw_def_dict |-> _raw_def_dict]

\* UseableInTemplates.DeleteTemplateValue: the dictionaries it leaves.
DeleteTemplateValue(self, key) ==
    [_def_dict |->
         IF key \in DOMAIN _def_dict[self]
         THEN [_def_dict EXCEPT ![self] = DictDel(@, key)]
         ELSE _def_dict,
     _raw_def_dict |-> _raw_def_dict]

\* The number of template objects.
NumTemplateObjects == 1

\* The names and the values of template values.
TemplateNames == {"wireName", "codeName", "description"}

TemplateValues == { <<"a","_","a">>, <<"t","r","y">> }

\* The discovery dictionaries objects are made with.
DefDicts ==
    {<<>>}
        \cup {("wireName" :> w) : w \in TemplateValues}
        \cup {("wireName" :> w) @@ ("description" :> w) : w \in TemplateValues}

\* UseableInTemplates(def_dict)
ConstructTemplate ==
    \E dict \in DefDicts :
        LET self == Cardinality(constructed) + 1
            made == UseableInTemplates__init__(self, dict)
        IN  /\ self \in 1..NumTemplateObjects
            /\ constructed' = constructed \cup {self}
            /\ _def_dict' = made._def_dict
            /\ _raw_def_dict' = made._raw_def_dict
            /\ def_dict_given' = [def_dict_given EXCEPT ![self] = dict]
            /\ last' = [op |-> "UseableInTemplates"]
            /\ UNCHANGED <<_parent, _children, _module, _language_model,
                           nameVars, moduleVars, annotateVars, data_values>>

CallSetTemplateValue ==
    \E self \in constructed, key \in TemplateNames, value \in TemplateValues :
        LET set == SetTemplateValue(self, key, value)
        IN  /\ _def_dict' = set._def_dict
            /\ _raw_def_dict' = set._raw_def_dict
            /\ last' = [op |-> "SetTemplateValue"]
            /\ UNCHANGED <<treeVars, nameVars, moduleVars, annotateVars,
                           def_dict_given, data_values>>

CallDeleteTemplateValue ==
    \E self \in constructed, key \in TemplateNames :
        LET deleted == DeleteTemplateValue(self, key)
        IN  /\ _def_dict' = deleted._def_dict
            /\ _raw_def_dict' = deleted._raw_def_dict
            /\ last' = [op |-> "DeleteTemplateValue"]
            /\ UNCHANGED <<treeVars, nameVars, moduleVars, annotateVars,
                           def_dict_given, data_values>>

InitTemplate == last = NoCall /\ the_api = NoApi /\ schemas = <<>> /\ NoTree

NextTemplate ==
    ConstructTemplate \/ CallSetTemplateValue \/ CallDeleteTemplateValue

SpecTemplate == InitTemplate /\ [][NextTemplate]_vars

(***************************************************************************)
(* CodeObject: the language model and the code name.                       *)
(***************************************************************************)

\* CodeObject.SetLanguageModel: the _language_model it leaves.
SetLanguageModel(self, model) == [_language_model EXCEPT ![self] = model]

\* django_helpers.MarkSafe marks a text as safe to emit; the text is the same.
MarkSafe(s) == s

\* A faulty variant: the cached code name is not looked at.
Mutant_codeName_Recomputed(self) ==
    IF "wireName" \notin DOMAIN _def_dict[self]
    THEN [result |-> Raise("KeyError", "%s", <<"wireName">>),
          _def_dict |-> _def_dict, _language_model |-> _language_model]
    ELSE LET lm == language_model(self)
             named == IF lm.value # NoModel
                      THEN ToMemberName(_def_dict[self]["wireName"], the_api)
                      ELSE Return(_def_dict[self]["wireName"])
         IN  IF lm.raised \/ ~named.ok
             THEN [result |-> Raise("RuntimeError", "", <<>>),
                   _def_dict |-> _def_dict,
                   _language_model |-> _language_model]
             ELSE [result |-> Return(MarkSafe(named.value)),
                   _def_dict |->
                       SetTemplateValue(self, "codeName",
                                        named.value)._def_dict,
                   _language_model |-> lm._language_model]

\* CodeObject.codeName: its outcome, and the _def_dict and _language_model
\* it leaves.  The read of language_model memoizes; ToMemberName may raise,
\* and then no code name is stored.
codeName(self) ==
    LET code_name == GetTemplateValue(self, "codeName")
    IN  IF Truthy(code_name)
        THEN [result |-> Return(MarkSafe(code_name)),
              _def_dict |-> _def_dict, _language_model |-> _language_model]
        ELSE IF "wireName" \notin DOMAIN _def_dict[self]
        THEN [result |-> Raise("KeyError", "%s", <<"wireName">>),
              _def_dict |-> _def_dict, _language_model |-> _language_model]
        ELSE LET wire == _def_dict[self]["wireName"]
                 lm == language_model(self)
             IN  IF lm.raised
                 THEN [result |-> Raise("RuntimeError",
                                        "maximum recursion depth exceeded",
                                        <<>>),
                       _def_dict |-> _def_dict,
                       _language_model |-> _language_model]
                 ELSE LET named == IF lm.value # NoModel
                                   THEN ToMemberName(wire, the_api)
                                   ELSE Return(wire)
                      IN  IF ~named.ok
                          THEN [result |-> named,
                                _def_dict |-> _def_dict,
                                _language_model |-> lm._language_model]
                          ELSE [result |-> Return(MarkSafe(named.value)),
                                _def_dict |->
                                    SetTemplateValue(self, "codeName",
                                                     named.value)._def_dict,
                                _language_model |-> lm._language_model]

\* The number of CodeObjects with a language model and a code name.
NumCodeObjects == 2

\* CodeObject.__init__(def_dict, api, parent, language_model) with the
\* given def_dict: the variables it leaves.
CodeObject__init__(self, dict, parent, model) ==
    LET made == UseableInTemplates__init__(self, dict)
        set == SetParent(self, parent)
    IN  /\ self \in 1..NumCodeObjects
        /\ constructed' = constructed \cup {self}
        /\ _def_dict' = made._def_dict
        /\ _raw_def_dict' = made._raw_def_dict
        /\ def_dict_given' = [def_dict_given EXCEPT ![self] = dict]
        /\ _language_model' = SetLanguageModel(self, model)
        /\ _parent' = set._parent
        /\ _children' = set._children
        /\ UNCHANGED <<_module, nameVars, moduleVars, annotateVars,
                       data_values>>

\* A CodeObject made with an empty def_dict.
ConstructCodeObject ==
    \E parent \in constructed \cup {Null},
       model \in LanguageModels \cup {NoModel} :
        /\ CodeObject__init__(Cardinality(constructed) + 1, <<>>, parent,
                              model)
        /\ last' = [op |-> "CodeObject"]

\* A CodeObject made with a wireName, the first object made: its parents
\* are made after it and given to it with SetParent.
ConstructNamedObject ==
    \E wire \in TemplateValues, model \in LanguageModels \cup {NoModel} :
        /\ constructed = {}
        /\ CodeObject__init__(1, "wireName" :> wire, Null, model)
        /\ last' = [op |-> "CodeObject"]

CallSetLanguageModel ==
    \E self \in constructed, model \in LanguageModels \cup {NoModel} :
        /\ _language_model' = SetLanguageModel(self, model)
        /\ last' = [op |-> "SetLanguageModel", self |-> self]
        /\ UNCHANGED <<constructed, _parent, _children, _module, nameVars,
                       moduleVars, annotateVars, objectVars>>

ReadLanguageModel ==
    \E self \in constructed :
        LET read == language_model(self)
        IN  /\ _language_model' = read._language_model
            /\ last' = [op |-> "language_model", self |-> self,
                        result |-> IF read.raised
                                   THEN Raise("RuntimeError",
                                              "maximum recursion depth exceeded",
                                              <<>>)
                                   ELSE Return(read.value)]
            /\ UNCHANGED <<constructed, _parent, _children, _module, nameVars,
                           moduleVars, annotateVars, objectVars>>

ReadCodeName ==
    \E self \in constructed :
        LET read == codeName(self)
        IN  /\ _def_dict' = read._def_dict
            /\ _language_model' = read._language_model
            /\ last' = [op |-> "codeName", self |-> self,
                        result |-> read.result]
            /\ UNCHANGED <<constructed, _parent, _children, _module, nameVars,
                           moduleVars, annotateVars, _raw_def_dict,
                           def_dict_given, data_values>>

InitCodeObjects == last = NoCall /\ the_api = NoApi /\ schemas = <<>> /\ NoTree

NextCodeObjects ==
    \/ ConstructCodeObject
    \/ CallSetParent
    \/ CallSetLanguageModel
    \/ ReadLanguageModel

SpecCodeObjects == InitCodeObjects /\ [][NextCodeObjects]_vars

\* An element with a wire name in the Api "a", and the objects around it.
InitCodeNames ==
    /\ last = NoCall
    /\ the_api = [name |-> <<"a">>]
    /\ schemas = <<>>
    /\ NoTree

NextCodeNames ==
    \/ ConstructNamedObject
    \/ ConstructCodeObject
    \/ CallSetParent
    \/ CallSetLanguageModel
    \/ ReadCodeName

SpecCodeNames == InitCodeNames /\ [][NextCodeNames]_vars

(***************************************************************************)
(* DataValue: a value with its data type.                                  *)
(***************************************************************************)

\* The number of schemas that are data types, of DataValues, and the most
\* references between a schema reference and the schema it stands for.
NumDataTypes == 2

NumDataValues == 2

MaxReferences == 2

\* What a DataValue is made from: a schema, reached through a number of
\* schema references (a reference to a reference to ... the schema), the
\* whole wrapped in a Property or a Parameter or not.
ValTypes ==
    [property : BOOLEAN, references : 0..MaxReferences,
     schema : 1..NumDataTypes]

\* The definition of a schema: a string of format int64, an integer of
\* format int32, in turn.
TypeValues(schema) ==
    IF schema % 2 = 1 THEN SchemaFragment(s_string, s_int64)
    ELSE SchemaFragment(s_integer, s_int32)

\* hasattr(val_type, 'data_type'): Properties and Parameters have one.
HasDataType(val_type) == val_type.property

\* Property.data_type and Parameter.data_type
data_type_of(val_type) == [val_type EXCEPT !.property = FALSE]

\* The data types with a referenced_schema are the schema references.
HasReferencedSchema(data_type) ==
    ~data_type.property /\ data_type.references > 0

\* SchemaReference.referenced_schema: the concrete schema referred to.
referenced_schema(data_type) == [data_type EXCEPT !.references = 0]

\* A faulty variant: a type wrapped in a Property is not dereferenced.
Mutant_DataValue_NoDereferenceWrapped(val_type) ==
    [_language_model |-> NoModel,
     _data_type |->
         IF HasDataType(val_type) THEN data_type_of(val_type)
         ELSE IF HasReferencedSchema(val_type)
         THEN referenced_schema(val_type)
         ELSE val_type]

\* DataValue.__init__(value, val_type): the DataValue it makes.  The
\* CodeObject part is made with no language model.
DataValue__init__(val_type) ==
    LET data_type == IF HasDataType(val_type) THEN data_type_of(val_type)
                     ELSE val_type
    IN  [_language_model |-> NoModel,
         _data_type |-> IF HasReferencedSchema(data_type)
                        THEN referenced_schema(data_type)
                        ELSE data_type]

\* DataType.code_type of a schema, under the given language models of the
\* CodeObjects: the type name its language model resolves for its
\* definition.
DataType_code_type(lm, data_type) ==
    LET model == language_modelAtDepth(lm, data_type.schema, NumNodes).value
    IN  IF model = NoModel
        THEN Raise("AttributeError", _NoneAttributeError,
                   <<"GetCodeTypeFromDictionary">>)
        ELSE GetCodeTypeFromDictionary(model, TypeValues(data_type.schema))

\* DataValue.SetLanguageModel: the DataValues and the language models of
\* the CodeObjects it leaves.
DataValue_SetLanguageModel(self, model) ==
    [data_values |-> [data_values EXCEPT ![self]._language_model = model],
     _language_model |->
         SetLanguageModel(data_values[self]._data_type.schema, model)]

\* DataValue.GetLanguageModel
GetLanguageModel(self) ==
    language_model(data_values[self]._data_type.schema).value

\* A faulty variant: the data type is left with the language model it has.
Mutant_code_type_OfDataType(self) ==
    [result |-> DataType_code_type(_language_model,
                                   data_values[self]._data_type),
     _language_model |-> _language_model]

\* DataValue.code_type: its outcome and the language models it leaves.
DataValue_code_type(self) ==
    LET lm == IF data_values[self]._language_model # NoModel
              THEN SetLanguageModel(data_values[self]._data_type.schema,
                                    data_values[self]._language_model)
              ELSE _language_model
    IN  [result |-> DataType_code_type(lm, data_values[self]._data_type),
         _language_model |-> lm]

\* The language models given to a DataValue.
DataValueModels == {"JavaLanguageModel", "Java14LanguageModel", NoModel}

\* DataValue(value, val_type), for a val_type with no parent.
ConstructDataValue ==
    \E val_type \in ValTypes :
        /\ Len(data_values) < NumDataValues
        /\ data_values' = Append(data_values, DataValue__init__(val_type))
        /\ last' = [op |-> "DataValue", val_type |-> val_type]
        /\ UNCHANGED <<treeVars, nameVars, moduleVars, annotateVars,
                       _def_dict, _raw_def_dict, def_dict_given>>

CallDataValueSetLanguageModel ==
    \E self \in DOMAIN data_values, model \in DataValueModels :
        LET set == DataValue_SetLanguageModel(self, model)
        IN  /\ data_values' = set.data_values
            /\ _language_model' = set._language_model
            /\ last' = [op |-> "DataValue.SetLanguageModel", self |-> self,
                        model |-> model]
            /\ UNCHANGED <<constructed, _parent, _children, _module,
                           nameVars, moduleVars, annotateVars, _def_dict,
                           _raw_def_dict, def_dict_given>>

ReadCodeType ==
    \E self \in DOMAIN data_values :
        LET read == DataValue_code_type(self)
        IN  /\ _language_model' = read._language_model
            /\ last' = [op |-> "code_type", self |-> self,
                        result |-> read.result]
            /\ UNCHANGED <<constructed, _parent, _children, _module,
                           nameVars, moduleVars, annotateVars, objectVars>>

CallGetLanguageModel ==
    \E self \in DOMAIN data_values :
        /\ last' = [op |-> "GetLanguageModel", self |-> self,
                    result |-> GetLanguageModel(self)]
        /\ UNCHANGED <<treeVars, nameVars, moduleVars, annotateVars,
                       objectVars>>

\* The schemas are made, with no parent and no language model, and there is
\* no DataValue.
InitDataValues ==
    /\ last = NoCall /\ the_api = NoApi /\ schemas = <<>>
    /\ constructed = 1..NumDataTypes
    /\ _parent = [n \in Nodes |-> Null]
    /\ _children = [n \in Nodes |-> <<>>]
    /\ _module = [n \in Nodes |-> Null]
    /\ _language_model = [n \in Nodes |-> NoModel]
    /\ _path = [n \in Nodes |-> None]
    /\ _owner_domain = [n \in Nodes |-> None]
    /\ _name = [n \in Nodes |-> None]
    /\ name_read = {}
    /\ path_given = [n \in Nodes |-> None]
    /\ NoAnnotation
    /\ NoObjects

NextDataValues ==
    \/ ConstructDataValue
    \/ CallDataValueSetLanguageModel
    \/ ReadCodeType
    \/ CallGetLanguageModel

SpecDataValues == InitDataValues /\ [][NextDataValues]_vars

(***************************************************************************)
(* Claims.                                                                 *)
(***************************************************************************)

\* The type names a model's mapping table gives, by (type, format) pair.
MappedTypeNames(model) ==
    IF model = "Java14LanguageModel"
    THEN TYPE_FORMAT_TO_DATATYPE
    ELSE [k \in DOMAIN TYPE_FORMAT_TO_DATATYPE_AND_IMPORTS |->
             TYPE_FORMAT_TO_DATATYPE_AND_IMPORTS[k][1]]

\* C4: GetCodeTypeFromDictionary never raises; with a missing type read as
\* "string" and a missing format as none, it returns the mapped type name
\* of a pair the model's table has, and the camel-cased json type otherwise.
C4_GetCodeType ==
    last.op = "GetCodeTypeFromDictionary" =>
        LET d == last.def_dict
            t == IF "type" \in DOMAIN d THEN d["type"] ELSE s_string
            f == IF "format" \in DOMAIN d THEN d["format"] ELSE None
            names == MappedTypeNames(last.model)
        IN  /\ last.result.ok
            /\ last.result.value =
                   IF <<t, f>> \in DOMAIN names THEN names[<<t, f>>]
                   ELSE CamelCase(t)

\* A fragment with no type and an unmapped format resolved to "String",
\* the camel-cased default type.
C4_Witness ==
    /\ last.op = "GetCodeTypeFromDictionary"
    /\ last.model = "JavaLanguageModel"
    /\ DOMAIN last.def_dict = {"format"}
    /\ last.def_dict["format"] = <<"i","n","t","8">>
    /\ last.result = Return(s_String)

\* The number a decimal text denotes, and -1 for a text that is no
\* canonical decimal numeral (empty, a non-digit, a leading zero).
RECURSIVE DecimalNat(_)
DecimalNat(text) ==
    IF text = <<>> THEN -1
    ELSE LET d == {i \in DOMAIN Digits : Digits[i] = text[Len(text)]}
         IN  IF d = {} THEN -1
             ELSE IF Len(text) = 1 THEN (CHOOSE i \in d : TRUE) - 1
             ELSE LET rest == DecimalNat(SubSeq(text, 1, Len(text) - 1))
                  IN  IF rest <= 0 THEN -1
                      ELSE 10 * rest + (CHOOSE i \in d : TRUE) - 1

IsDecimalOf(text, n) ==
    IF n < 0
    THEN Len(text) >= 2 /\ text[1] = "-" /\ DecimalNat(Tail(text)) = 0 - n
    ELSE DecimalNat(text) = n

LongType(model) ==
    IF model = "Java14LanguageModel" THEN s_java_lang_Long ELSE s_Long

PlainIntTypes(model) ==
    IF model = "Java14LanguageModel"
    THEN {s_java_lang_Integer, s_java_lang_Short}
    ELSE {s_Integer, s_Short}

\* C8: _Int renders by the code type of the value: the model's Long type
\* gives the decimal value followed by 'L', its Integer and Short types the
\* plain decimal value, and any other code type raises a ValueError whose
\* message is formatted with the value and with the code type.
C8_Int ==
    last.op = "_Int" =>
        LET v == last.data_value.value
            ct == last.data_value.code_type
            r == last.result
        IN  IF ct = LongType(last.model)
            THEN /\ r.ok
                 /\ Len(r.value) >= 2
                 /\ r.value[Len(r.value)] = "L"
                 /\ IsDecimalOf(SubSeq(r.value, 1, Len(r.value) - 1), v)
            ELSE IF ct \in PlainIntTypes(last.model)
            THEN r.ok /\ IsDecimalOf(r.value, v)
            ELSE /\ ~r.ok
                 /\ r.exc = "ValueError"
                 /\ Len(r.args) = 2
                 /\ IsDecimalOf(r.args[1], v)
                 /\ r.args[2] = ct

\* A negative two-digit Long rendered with its suffix.
C8_Witness ==
    /\ last.op = "_Int"
    /\ last.model = "JavaLanguageModel"
    /\ last.data_value = [value |-> -12, code_type |-> s_Long]
    /\ last.result = Return(<<"-","1","2","L">>)

IsPrefixOf(p, s) == Len(p) <= Len(s) /\ SubSeq(s, 1, Len(p)) = p

IsSuffixOf(p, s) ==
    Len(p) <= Len(s) /\ SubSeq(s, Len(s) - Len(p) + 1, Len(s)) = p

C6_NoAncestorNameReturned ==
    last.op = "ToSafeClassName"
        /\ (\E i \in DOMAIN last.full_path :
               last.full_path[i].safeClassName = CamelCase(last.s)) =>
        /\ IsSuffixOf(CamelCase(last.s), last.result)
        /\ Len(last.result) > Len(CamelCase(last.s))
        /\ \A i \in DOMAIN last.full_path :
               last.full_path[i].safeClassName # last.result

\* The number of times x occurs in a list.
RECURSIVE Count(_, _)
Count(list, x) ==
    IF list = <<>> THEN 0
    ELSE (IF Head(list) = x THEN 1 ELSE 0) + Count(Tail(list), x)

\* C1: every CodeObject is exactly once in the children of its parent and
\* in the children of no other node; a node with no parent is in no
\* children list.
C1_ChildrenMatchParents ==
    \A n \in constructed, p \in Nodes :
        Count(_children[p], n) = IF _parent[n] = p THEN 1 ELSE 0

\* After a SetParent that moved the oldest node below the youngest: a
\* chain of three nodes, each the only child of its parent.
C1_Witness ==
    /\ last.op = "SetParent"
    /\ _parent[2] = Null /\ _parent[3] = 2 /\ _parent[1] = 3
    /\ _children[2] = <<3>> /\ _children[3] = <<1>> /\ _children[1] = <<>>

\* The k-th node on the walk self, parent, grandparent, ...; Null past the
\* root.
RECURSIVE WalkUp(_, _)
WalkUp(n, k) ==
    IF k = 0 \/ n = Null THEN n ELSE WalkUp(_parent[n], k - 1)

\* The parent chain of n ends at a root.
InTree(n) == \E k \in 1..NumNodes : WalkUp(n, k) = Null

\* C10: in a tree, reading module returns the Module assigned to the
\* nearest node on the walk self, parent, grandparent, ...; when no node
\* up to the root has one, the read raises a ValueError.
C10_ModuleOfNearest ==
    last.op = "module" /\ InTree(last.self) =>
        LET assigned ==
                {k \in 0..NumNodes :
                    WalkUp(last.self, k) # Null
                        /\ _module[WalkUp(last.self, k)] # Null}
        IN  IF assigned = {}
            THEN ~last.result.ok /\ last.result.exc = "ValueError"
            ELSE LET k == CHOOSE k \in assigned : \A j \in assigned : k <= j
                 IN  last.result = Return(_module[WalkUp(last.self, k)])

\* A read on a node with no Module returned the Module of its parent,
\* not the other Module, which its grandparent has.
C10_Witness ==
    /\ last.op = "module"
    /\ _module[last.self] = Null
    /\ _parent[last.self] # Null
    /\ _module[_parent[last.self]] # Null
    /\ _parent[_parent[last.self]] # Null
    /\ _module[_parent[_parent[last.self]]]
           \notin {Null, _module[_parent[last.self]]}
    /\ last.result = Return(_module[_parent[last.self]])

\* C2: a SetPath call on a Module whose name was read raises a ValueError,
\* whatever the path and the name.
C2_SetPathAfterNameRaises ==
    last.op = "SetPath" /\ last.name_was_read =>
        ~last.result.ok /\ last.result.exc = "ValueError"

\* The path a Module's own path is appended to: the path of its parent, or
\* the default container path of its owner domain.
BasePath(self) ==
    IF _parent[self] # Null THEN path(_parent[self]).value
    ELSE DefaultContainerPathForOwner(_owner_domain[self])

Leaf(data_type) == data_type[Len(data_type)]

Wrappers(data_type) == Len(data_type) - 1

\* C7: after annotation the element has requiresJsonString = True exactly
\* when its leaf type is a "string" of format "int64" or "uint64"; and the
\* type name of a "string" of format "int64" is the Long type of the model.
C7_RequiresJsonString ==
    frame.pc = "done" =>
        LET leaf == Leaf(element.data_type)
            format == IF "format" \in DOMAIN leaf.values
                      THEN leaf.values["format"] ELSE None
            marked == /\ "requiresJsonString" \in DOMAIN element.values
                      /\ element.values["requiresJsonString"] = TRUE
        IN  /\ marked <=> /\ leaf.json_type = s_string
                          /\ format \in {s_int64, s_uint64}
            /\ leaf.json_type = s_string /\ format = s_int64 =>
                   GetCodeTypeFromDictionary(frame.model, leaf.values)
                       = Return(LongType(frame.model))

\* A map of arrays of uint64 strings annotated by the Java 1.14 generator.
C7_Witness ==
    /\ frame.pc = "done"
    /\ frame.generator = "Java14Generator"
    /\ Len(element.data_type) = 3
    /\ element.data_type[1].json_type = s_map
    /\ Leaf(element.data_type).values = SchemaFragment(s_string, s_uint64)
    /\ element.values = ("requiresJsonString" :> TRUE)

\* C9: the loop of a handler ends, after as many turns as the data type
\* has wrappers, and the pair looked up is the json type and the format of
\* the leaf.
C9_UnwrapsToLeaf ==
    /\ [](frame.pc = "done" =>
            LET leaf == Leaf(element.data_type)
            IN  /\ frame.steps = Wrappers(element.data_type)
                /\ frame.lookup =
                       <<leaf.json_type,
                         IF "format" \in DOMAIN leaf.values
                         THEN leaf.values["format"] ELSE None>>)
    /\ [](frame.pc = "loop" => <>(frame.pc = "done"))

\* A call that made two turns past wrappers with a format of their own and
\* looked up a leaf with none.
C9_Witness ==
    /\ frame.pc = "done"
    /\ frame.steps = 2
    /\ \A i \in 1..2 : "format" \in DOMAIN element.data_type[i].values
    /\ frame.lookup = <<s_integer, None>>


\* The read of module on n goes through the parent of m: m is on the walk
\* from n, and no node from n up to m has a Module of its own.
ReadsParentOf(n, m) ==
    \E k \in 0..NumNodes :
        /\ WalkUp(n, k) = m
        /\ \A j \in 0..k : _module[WalkUp(n, j)] = Null

C19_IntegerTypeAccepted ==
    last.op = "GetCodeTypeFromDictionary"
        /\ DictGet(last.def_dict, "type", None) = s_integer =>
        /\ last.result.ok
        /\ \A v \in (0 - MaxIntValue)..MaxIntValue :
               _Int(last.model,
                    [value |-> v, code_type |-> last.result.value]).ok

\* C18: the name of every Module whose name has been read is its path with
\* "/" replaced by the delimiter of module names.
C18_NameIsPath ==
    \A n \in name_read :
        Truthy(_name[n]) =>
            /\ path(n).ok
            /\ _name[n] = replace(path(n).value, "/",
                                  module_name_delimiter(_language_model[n]))


\* The imports the table of the Java language models requires for a leaf.
RequiredImports(leaf) ==
    LET key == <<leaf.json_type, DictGet(leaf.values, "format", None)>>
    IN  IF key \in DOMAIN TYPE_FORMAT_TO_DATATYPE_AND_IMPORTS
        THEN LET definition == TYPE_FORMAT_TO_DATATYPE_AND_IMPORTS[key][2]
             IN  {definition.imports[i] : i \in DOMAIN definition.imports}
        ELSE {}

\* C15: after _HandleImports, the imports the leaf type requires are in
\* the import manager of the outermost schema around the element's schema
\* when inner model classes are supported, and of the element's own schema
\* when they are not; no other import manager has an import.
C15_ImportsOfOutermost ==
    frame.pc = "done" /\ frame.generator # "Java14Generator" =>
        LET owner == IF _InnerModelClassesSupported(frame.generator)
                     THEN 1 ELSE element.schema
        IN  import_managers =
                [k \in 1..MaxSchemaDepth |->
                    IF k = owner
                    THEN RequiredImports(Leaf(element.data_type))
                    ELSE {}]

\* An array of int64 strings in a nested schema, annotated by a generator
\* with inner model classes: both imports are in the outer schema's manager.
C15_Witness ==
    /\ frame.pc = "done"
    /\ frame.generator = "BaseJavaGenerator"
    /\ element.schema = 2
    /\ Len(element.data_type) = 2
    /\ import_managers[1] = {"java.lang.Long", _JSON_STRING_IMPORT}
    /\ import_managers[2] = {}


\* C13: raw is the dictionary the object was made with, whatever template
\* values were set and deleted since.
C13_RawAsConstructed ==
    \A n \in constructed : _raw_def_dict[n] = def_dict_given[n]

\* After a DeleteTemplateValue, an object whose values have lost the
\* wireName it was made with and have gained a codeName.
C13_Witness ==
    /\ last.op = "DeleteTemplateValue"
    /\ DOMAIN _raw_def_dict[1] = {"wireName"}
    /\ DOMAIN _def_dict[1] = {"codeName"}


\* The _language_model of the nearest node that has one on the walk self,
\* parent, grandparent, ...; none when no node on the walk has one.
NearestModel(n) ==
    LET assigned ==
            {k \in 0..NumNodes :
                WalkUp(n, k) # Null
                    /\ _language_model[WalkUp(n, k)] # NoModel}
    IN  IF assigned = {} THEN NoModel
        ELSE LET k == CHOOSE k \in assigned : \A j \in assigned : k <= j
             IN  _language_model[WalkUp(n, k)]

\* C12: a read of codeName on an object with a wireName, no code name yet
\* and a language model in reach returns ToMemberName(wireName, api) of
\* that model and stores it; a read on an object with a stored code name
\* returns it and stores nothing; SetParent and SetLanguageModel leave the
\* template values of every object as they are.
C12_CodeNameCached ==
    /\ [][last'.op = "codeName" =>
            LET n == last'.self
                cached == GetTemplateValue(n, "codeName")
            IN  IF Truthy(cached)
                THEN last'.result = Return(cached) /\ _def_dict' = _def_dict
                ELSE "wireName" \in DOMAIN _def_dict[n]
                         /\ NearestModel(n) # NoModel =>
                     /\ last'.result =
                            ToMemberName(_def_dict[n]["wireName"], the_api)
                     /\ last'.result.ok =>
                            /\ Truthy(last'.result.value)
                            /\ _def_dict'[n] =
                                   DictSet(_def_dict[n], "codeName",
                                           last'.result.value)]_vars
    /\ [][last'.op \in {"SetParent", "SetLanguageModel"} =>
            _def_dict' = _def_dict]_vars

\* A read returned the code name stored by an earlier read, on an object
\* that has no language model in reach any more.
C12_Witness ==
    /\ last.op = "codeName"
    /\ the_api.name = <<"a">>
    /\ last.result = Return(<<"a","T","r","y">>)
    /\ NearestModel(last.self) = NoModel

\* C17: a read of language_model returns the model of the nearest node
\* that has one on the walk self, parent, ..., or none, and leaves a model
\* it returned in the node; a node keeps the model it has through every
\* call but a SetLanguageModel on it, SetParent included.
C17_LanguageModelMemoized ==
    /\ [][last'.op = "language_model" =>
            LET n == last'.self
            IN  /\ NearestModel(n) # NoModel \/ InTree(n) =>
                       last'.result = Return(NearestModel(n))
                /\ last'.result.ok /\ last'.result.value # NoModel =>
                       _language_model'[n] = last'.result.value]_vars
    /\ [][\A n \in constructed :
              /\ _language_model[n] # NoModel
              /\ ~(last'.op = "SetLanguageModel" /\ last'.self = n)
              => _language_model'[n] = _language_model[n]]_vars

\* A read returned the model the node took from its parent at an earlier
\* read, and not the model its parent has now.
C17_Witness ==
    /\ last.op = "language_model"
    /\ last.result.ok
    /\ last.result.value # NoModel
    /\ _parent[last.self] # Null
    /\ _language_model[_parent[last.self]] \notin {NoModel, last.result.value}


C16_DataValueModel ==
    /\ last.op = "DataValue.SetLanguageModel" /\ last.model # NoModel =>
           /\ data_values[last.self]._language_model = last.model
           /\ GetLanguageModel(last.self) = last.model
    /\ last.op = "code_type"
           /\ data_values[last.self]._language_model # NoModel =>
           last.result =
               GetCodeTypeFromDictionary(
                   data_values[last.self]._language_model,
                   TypeValues(data_values[last.self]._data_type.schema))

\* The code_type of the first of two DataValues of one data type, read
\* with the first one's model after the second was given the other model.
C16_Witness ==
    /\ last.op = "code_type"
    /\ last.self = 1
    /\ Len(data_values) = 2
    /\ data_values[1]._data_type = data_values[2]._data_type
    /\ data_values[1]._language_model = "JavaLanguageModel"
    /\ data_values[2]._language_model = "Java14LanguageModel"
    /\ last.result = Return(s_Long)

====
